---- MODULE Spec2Model ----
(***************************************************************************)
(* Model of the events-booking server (src/index.js; src/unnamed/part_000  *)
(* is the same set of routes with a different database configuration).     *)
(*                                                                         *)
(* State: the three tables behind the single pg connection (users, events, *)
(* bookings, with their serial id counters), the express-session store     *)
(* (one session per client cookie) and the requests in flight.  Every      *)
(* async handler is cut at its awaits: one action per synchronous stretch  *)
(* of a handler, so that the stretches of different requests interleave    *)
(* as the event loop allows.                                               *)
(***************************************************************************)
EXTENDS Integers, Sequences, FiniteSets, TLC

\* ------------------------------------------------------------------ bounds
MaxUsers == 2        \* user rows ever inserted
MaxEvents == 2       \* event rows ever inserted
MaxBookings == 1     \* booking rows ever inserted

\* ------------------------------------------------------------------ inputs
Clients == {"c1", "c2"}
Slots == {1, 2}
Usernames == {"alice", "bob"}
\* A plaintext is a sequence of characters; a hash is a longer sequence.
Passwords == {<<"p">>, <<"q">>}
Salts == {"s1"}
\* A form field that may be absent is a sequence of length 0 (absent, undefined
\* in req.body) or 1 (present).
Absent == << >>
PasswordFields == {Absent} \cup {<<p>> : p \in Passwords}
RoleFields == {Absent, <<"">>, <<"admin">>, <<"guest">>}
Titles == {"t"}
Locations == {"l"}
Dates == {1, 2}
EventIds == 1..(MaxEvents + 1)

\* SQL NULL in events.user_id (the INSERT of /admin/add names no user_id).
NULL == 0

\* req.session.user of a session nobody logged in to (undefined).
NoUser == [id |-> 0, username |-> "", password |-> << >>, role |-> ""]

VARIABLES
    users,          \* table users: sequence of rows in insertion order
    events,         \* table events: set of rows
    bookings,       \* table bookings: set of rows
    nextEventId,    \* serial of events.id
    nextBookingId,  \* serial of bookings.id
    session,        \* session store: client cookie -> req.session.user
    req             \* requests: slot -> request record

vars == <<users, events, bookings, nextEventId, nextBookingId, session, req>>

db == <<users, events, bookings, nextEventId, nextBookingId>>

\* ------------------------------------------------------------------ helpers
Range(s) == {s[i] : i \in 1..Len(s)}

NoBody == [username |-> "", password |-> Absent, role |-> Absent,
           title |-> "", date |-> 0, location |-> "", id |-> 0]

NoView == [user |-> NoUser, events |-> << >>, eventId |-> 0]

Idle == [route |-> "idle", client |-> "c1", pc |-> "done", body |-> NoBody,
         user |-> NoUser, rows |-> << >>, hashed |-> << >>,
         res |-> "none", view |-> NoView]

\* A request as it enters its handler, with req.body as body-parser filled it.
\* The handlers of GET /signup, POST /signup, GET /login and POST /login never
\* read req.session: the request record holds no session user for them.
Arrive(route, c, body) ==
    [route |-> route, client |-> c, pc |-> "start", body |-> body,
     user |-> NoUser, rows |-> << >>, hashed |-> << >>,
     res |-> "none", view |-> NoView]

\* The same for a handler that reads req.session.user: express-session has loaded
\* the client's session from the store.
ArriveWithSession(route, c, body) ==
    [Arrive(route, c, body) EXCEPT !.user = session[c]]

\* Requests are taken into the lowest free slot.
Free(r) == req[r].pc = "done" /\ \A q \in Slots : q < r => req[q].pc # "done"

InFlight(route) == Cardinality({r \in Slots : req[r].route = route /\ req[r].pc # "done"})

\* Variant of the hashing: the password is stored as it came.
bcryptHashPlaintext(password, salt) == password

\* bcrypt.hash(password, 10) with the salt it drew; bcrypt.compare(password, hash).
bcryptHash(password, salt) == <<"$2b$10$", salt>> \o password

bcryptCompare(password, hash) ==
    /\ Len(hash) >= 2
    /\ hash[1] = "$2b$10$"
    /\ hash = bcryptHash(password, hash[2])

\* SELECT * FROM users WHERE username=$1: the matching rows. Without ORDER BY the
\* order of the rows is the database's choice.
RECURSIVE Perms(_)
Perms(S) ==
    IF S = {} THEN {<< >>}
    ELSE UNION {{<<x>> \o p : p \in Perms(S \ {x})} : x \in S}

SelectUsers(username) ==
    Perms({u \in Range(users) : u.username = username})

\* ... ORDER BY date ASC: rows of equal date in the database's order.
IsSortedByDate(s) == \A i, j \in 1..Len(s) : i < j => s[i].date <= s[j].date

OrderByDate(S) == {s \in Perms(S) : IsSortedByDate(s)}

\* The response ends the request: what the handler held is dropped, the slot
\* keeps who asked what and what was answered.
Answer(q, res, view) ==
    [Idle EXCEPT !.route = q.route, !.client = q.client, !.res = res, !.view = view]

Respond(r, res) == [req EXCEPT ![r] = Answer(req[r], res, NoView)]

Render(r, res, view) == [req EXCEPT ![r] = Answer(req[r], res, view)]

At(r, route, pc) == req[r].route = route /\ req[r].pc = pc

\* ------------------------------------------------------------------ init
Init ==
    /\ users = << >>
    /\ events = {}
    /\ bookings = {}
    /\ nextEventId = 1
    /\ nextBookingId = 1
    /\ session = [c \in Clients |-> NoUser]
    /\ req = [r \in Slots |-> Idle]

\* ------------------------------------------------------------------ access control
\* Variant of requireLogin: next() is called whatever the session holds.
requireLoginAlwaysNext(q) == TRUE

\* requireLogin: next() is called iff req.session.user is set.
requireLogin(q) == q.user # NoUser

\* Variant of the inline check: any logged-in user passes.
isAdminAnyRole(q) == TRUE

\* The inline check of the admin routes: req.session.user.role !== "admin".
isAdmin(q) == q.user.role = "admin"

\* What a route behind requireLogin answers before its body runs ("next": the
\* body runs), and the same for a route with the inline admin check.
LoginGate(q) == IF requireLogin(q) THEN "next" ELSE "redirect /login"

\* Variant of the admin routes: requireLogin alone, the inline check left out.
AdminGateLoginOnly(q) == LoginGate(q)

AdminGate(q) ==
    IF ~requireLogin(q) THEN "redirect /login"
    ELSE IF ~isAdmin(q) THEN "Access denied"
    ELSE "next"

\* The request q enters slot r: refused at the gate, or suspended at its await.
Enter(r, q, gate, pc) ==
    req' = [req EXCEPT ![r] = IF gate = "next" THEN [q EXCEPT !.pc = pc]
                              ELSE Answer(q, gate, NoView)]

\* ------------------------------------------------------------------ GET /signup, GET /login
SignupForm(r, c) ==
    /\ Free(r)
    /\ req' = [req EXCEPT ![r] =
                    Answer(Arrive("GET /signup", c, NoBody), "render signup", NoView)]
    /\ UNCHANGED <<db, session>>

LoginForm(r, c) ==
    /\ Free(r)
    /\ req' = [req EXCEPT ![r] =
                    Answer(Arrive("GET /login", c, NoBody), "render login", NoView)]
    /\ UNCHANGED <<db, session>>

\* ------------------------------------------------------------------ POST /signup
SignupBody(username, password, role) ==
    [NoBody EXCEPT !.username = username, !.password = password, !.role = role]

\* role || "user"
SignupRole(role) == IF role = Absent \/ role[1] = "" THEN "user" ELSE role[1]

\* The row of INSERT INTO users (username, password, role) VALUES ($1, $2, $3).
NewUser(q) ==
    [id |-> Len(users) + 1, username |-> q.body.username,
     password |-> q.hashed, role |-> SignupRole(q.body.role)]

SignupBegin(r, c, usernames, passwords, roles) ==
    /\ Free(r)
    /\ Len(users) + InFlight("POST /signup") < MaxUsers
    /\ \E username \in usernames, password \in passwords, role \in roles :
          req' = [req EXCEPT ![r] =
                    [Arrive("POST /signup", c, SignupBody(username, password, role))
                        EXCEPT !.pc = "select"]]
    /\ UNCHANGED <<db, session>>

\* Variant of the existence check: the rows found are ignored.
SignupSelectUnchecked(r) ==
    /\ At(r, "POST /signup", "select")
    /\ \/ req' = Respond(r, "Error occurred")
       \/ req' = [req EXCEPT ![r].pc = "hash"]
    /\ UNCHANGED <<db, session>>

\* const existing = await db.query("SELECT * FROM users WHERE username=$1")
SignupSelect(r) ==
    /\ At(r, "POST /signup", "select")
    /\ \/ req' = Respond(r, "Error occurred")             \* the query rejects
       \/ \E existing \in SelectUsers(req[r].body.username) :
            req' = IF Len(existing) > 0
                   THEN Respond(r, "Username already taken")
                   ELSE [req EXCEPT ![r].pc = "hash"]
    /\ UNCHANGED <<db, session>>

\* const hashed = await bcrypt.hash(password, 10): rejects without a password.
SignupHash(r) ==
    /\ At(r, "POST /signup", "hash")
    /\ IF req[r].body.password = Absent
       THEN req' = Respond(r, "Error occurred")
       ELSE \E salt \in Salts :
              req' = [req EXCEPT ![r].pc = "insert",
                                 ![r].hashed = bcryptHash(req[r].body.password[1], salt)]
    /\ UNCHANGED <<db, session>>

\* Variant of the insert: the table has a uniqueness constraint on username, so
\* the insert of a username that some row has is rejected.
SignupInsertUnique(r) ==
    /\ At(r, "POST /signup", "insert")
    /\ \/ /\ req' = Respond(r, "Error occurred")
          /\ UNCHANGED users
       \/ /\ \A u \in Range(users) : u.username # req[r].body.username
          /\ users' = Append(users, NewUser(req[r]))
          /\ req' = Respond(r, "redirect /login")
    /\ UNCHANGED <<events, bookings, nextEventId, nextBookingId, session>>

\* Variant of the insert: the new user is logged in at once.
SignupInsertLogsIn(r) ==
    /\ At(r, "POST /signup", "insert")
    /\ \/ /\ req' = Respond(r, "Error occurred")
          /\ UNCHANGED <<users, session>>
       \/ /\ users' = Append(users, NewUser(req[r]))
          /\ session' = [session EXCEPT ![req[r].client] = NewUser(req[r])]
          /\ req' = Respond(r, "redirect /login")
    /\ UNCHANGED <<events, bookings, nextEventId, nextBookingId>>

\* Variant of the insert: no try/catch around it, as in the other routes.
SignupInsertUncaught(r) ==
    /\ At(r, "POST /signup", "insert")
    /\ \/ /\ req' = Respond(r, "unhandled error")
          /\ UNCHANGED users
       \/ /\ users' = Append(users, NewUser(req[r]))
          /\ req' = Respond(r, "redirect /login")
    /\ UNCHANGED <<events, bookings, nextEventId, nextBookingId, session>>

\* await db.query("INSERT INTO users ..."); res.redirect("/login")
SignupInsert(r) ==
    /\ At(r, "POST /signup", "insert")
    /\ \/ /\ req' = Respond(r, "Error occurred")          \* the query rejects
          /\ UNCHANGED users
       \/ /\ users' = Append(users, NewUser(req[r]))
          /\ req' = Respond(r, "redirect /login")
    /\ UNCHANGED <<events, bookings, nextEventId, nextBookingId, session>>

\* ------------------------------------------------------------------ POST /login
LoginBody(username, password) ==
    [NoBody EXCEPT !.username = username, !.password = password]

LoginBegin(r, c, usernames, passwords) ==
    /\ Free(r)
    /\ \E username \in usernames, password \in passwords :
          req' = [req EXCEPT ![r] =
                    [Arrive("POST /login", c, LoginBody(username, password))
                        EXCEPT !.pc = "select"]]
    /\ UNCHANGED <<db, session>>

\* Variant of the lookup: the WHERE clause is lost, all rows come back.
LoginSelectAnyUser(r) ==
    /\ At(r, "POST /login", "select")
    /\ \/ req' = Respond(r, "unhandled error")
       \/ \E result \in Perms(Range(users)) :
            req' = IF Len(result) > 0
                   THEN [req EXCEPT ![r].pc = "compare", ![r].rows = result]
                   ELSE Respond(r, "Invalid credentials")
    /\ UNCHANGED <<db, session>>

\* const result = await db.query("SELECT * FROM users WHERE username=$1")
LoginSelect(r) ==
    /\ At(r, "POST /login", "select")
    /\ \/ req' = Respond(r, "unhandled error")            \* the query rejects
       \/ \E result \in SelectUsers(req[r].body.username) :
            req' = IF Len(result) > 0
                   THEN [req EXCEPT ![r].pc = "compare", ![r].rows = result]
                   ELSE Respond(r, "Invalid credentials")
    /\ UNCHANGED <<db, session>>

\* Variant of the last step of the login: the outcome of bcrypt.compare is not
\* looked at, the session is set for any password.
LoginCompareIgnored(r) ==
    /\ At(r, "POST /login", "compare")
    /\ IF req[r].body.password = Absent
       THEN /\ req' = Respond(r, "unhandled error")
            /\ UNCHANGED session
       ELSE /\ req' = Respond(r, "redirect /")
            /\ session' = [session EXCEPT ![req[r].client] = req[r].rows[1]]
    /\ UNCHANGED db

\* Variant of the last step of the login: the session keeps the user without
\* the hash.
LoginCompareOmitsHash(r) ==
    /\ At(r, "POST /login", "compare")
    /\ LET user == req[r].rows[1] IN
       IF req[r].body.password = Absent
       THEN /\ req' = Respond(r, "unhandled error")
            /\ UNCHANGED session
       ELSE IF bcryptCompare(req[r].body.password[1], user.password)
       THEN /\ req' = Respond(r, "redirect /")
            /\ session' = [session EXCEPT ![req[r].client] =
                                            [user EXCEPT !.password = << >>]]
       ELSE /\ req' = Respond(r, "Invalid credentials")
            /\ UNCHANGED session
    /\ UNCHANGED db

\* const match = await bcrypt.compare(password, user.password): rejects without a
\* password. On a match req.session.user = user, saved to the store as the
\* response ends.
LoginCompare(r) ==
    /\ At(r, "POST /login", "compare")
    /\ LET user == req[r].rows[1] IN
       IF req[r].body.password = Absent
       THEN /\ req' = Respond(r, "unhandled error")
            /\ UNCHANGED session
       ELSE IF bcryptCompare(req[r].body.password[1], user.password)
       THEN /\ req' = Respond(r, "redirect /")
            /\ session' = [session EXCEPT ![req[r].client] = user]
       ELSE /\ req' = Respond(r, "Invalid credentials")
            /\ UNCHANGED session
    /\ UNCHANGED db

\* ------------------------------------------------------------------ GET /logout
\* Variant of the logout: the callback is scheduled, the session is not destroyed.
LogoutBeginKeepsSession(r, c) ==
    /\ Free(r)
    /\ req' = [req EXCEPT ![r] =
                  [Arrive("GET /logout", c, NoBody) EXCEPT !.pc = "destroyed"]]
    /\ UNCHANGED <<db, session>>

\* Variant of the logout: the whole store is cleared, not the one session.
LogoutBeginClearsStore(r, c) ==
    /\ Free(r)
    /\ /\ req' = [req EXCEPT ![r] =
                      [Arrive("GET /logout", c, NoBody) EXCEPT !.pc = "destroyed"]]
         /\ session' = [d \in Clients |-> NoUser]
    /\ UNCHANGED db

\* req.session.destroy(cb): the store forgets the session, then calls back.
LogoutBegin(r, c) ==
    /\ Free(r)
    /\ /\ req' = [req EXCEPT ![r] =
                      [Arrive("GET /logout", c, NoBody) EXCEPT !.pc = "destroyed"]]
         /\ session' = [session EXCEPT ![c] = NoUser]
    /\ UNCHANGED db

\* () => res.redirect("/")
LogoutCallback(r) ==
    /\ At(r, "GET /logout", "destroyed")
    /\ req' = Respond(r, "redirect /")
    /\ UNCHANGED <<db, session>>

\* ------------------------------------------------------------------ GET /
\* Variant of the listing: every user is shown every event.
HomeRowsAll(user) == events

\* SELECT * FROM events [WHERE user_id = $1]: the rows the session's user is shown.
HomeRows(user) ==
    IF user.role = "admin" THEN events
    ELSE {e \in events : e.user_id = user.id}

\* Without a session user no query is made: the list is empty.
HomeBegin(r, c) ==
    /\ Free(r)
    /\ LET q == ArriveWithSession("GET /", c, NoBody) IN
         req' = [req EXCEPT ![r] =
                   IF q.user # NoUser THEN [q EXCEPT !.pc = "query"]
                   ELSE Answer(q, "render index", [NoView EXCEPT !.user = q.user])]
    /\ UNCHANGED <<db, session>>

HomeQuery(r) ==
    /\ At(r, "GET /", "query")
    /\ \/ req' = Respond(r, "unhandled error")            \* the query rejects
       \/ \E rows \in OrderByDate(HomeRows(req[r].user)) :
            req' = Render(r, "render index",
                          [NoView EXCEPT !.user = req[r].user, !.events = rows])
    /\ UNCHANGED <<db, session>>

\* ------------------------------------------------------------------ GET /create-event
CreateForm(r, c) ==
    /\ Free(r)
    /\ LET q == ArriveWithSession("GET /create-event", c, NoBody) IN
         req' = [req EXCEPT ![r] =
                   IF LoginGate(q) = "next"
                   THEN Answer(q, "render create-event", [NoView EXCEPT !.user = q.user])
                   ELSE Answer(q, LoginGate(q), NoView)]
    /\ UNCHANGED <<db, session>>

\* ------------------------------------------------------------------ POST /create-event
EventBody(title, date, location) ==
    [NoBody EXCEPT !.title = title, !.date = date, !.location = location]

\* The row of INSERT INTO events (title, date, location[, user_id]).
NewEvent(q, owner) ==
    [id |-> nextEventId, title |-> q.body.title, date |-> q.body.date,
     location |-> q.body.location, user_id |-> owner]

EventInserts == InFlight("POST /create-event") + InFlight("POST /admin/add")

CreateBegin(r, c) ==
    /\ Free(r)
    /\ nextEventId + EventInserts <= MaxEvents
    /\ \E title \in Titles, date \in Dates, location \in Locations :
         LET q == ArriveWithSession("POST /create-event", c, EventBody(title, date, location)) IN
         Enter(r, q, LoginGate(q), "insert")
    /\ UNCHANGED <<db, session>>

\* Variant of the insert: the user_id column is left out, as in /admin/add.
CreateInsertNoOwner(r) ==
    /\ At(r, "POST /create-event", "insert")
    /\ \/ /\ req' = Respond(r, "unhandled error")
          /\ UNCHANGED <<events, nextEventId>>
       \/ /\ events' = events \cup {NewEvent(req[r], NULL)}
          /\ nextEventId' = nextEventId + 1
          /\ req' = Respond(r, "redirect /")
    /\ UNCHANGED <<users, bookings, nextBookingId, session>>

\* const userId = req.session.user.id; await db.query("INSERT INTO events ...")
CreateInsert(r) ==
    /\ At(r, "POST /create-event", "insert")
    /\ \/ /\ req' = Respond(r, "unhandled error")         \* the query rejects
          /\ UNCHANGED <<events, nextEventId>>
       \/ /\ events' = events \cup {NewEvent(req[r], req[r].user.id)}
          /\ nextEventId' = nextEventId + 1
          /\ req' = Respond(r, "redirect /")
    /\ UNCHANGED <<users, bookings, nextBookingId, session>>

\* ------------------------------------------------------------------ POST /book/:id
NewBooking(q) ==
    [id |-> nextBookingId, user_id |-> q.user.id, event_id |-> q.body.id]

BookBegin(r, c) ==
    /\ Free(r)
    /\ nextBookingId + InFlight("POST /book/:id") <= MaxBookings
    /\ \E id \in EventIds :
         LET q == ArriveWithSession("POST /book/:id", c, [NoBody EXCEPT !.id = id]) IN
         Enter(r, q, LoginGate(q), "insert")
    /\ UNCHANGED <<db, session>>

BookInsert(r) ==
    /\ At(r, "POST /book/:id", "insert")
    /\ \/ /\ req' = Respond(r, "unhandled error")         \* the query rejects
          /\ UNCHANGED <<bookings, nextBookingId>>
       \/ /\ bookings' = bookings \cup {NewBooking(req[r])}
          /\ nextBookingId' = nextBookingId + 1
          /\ req' = Render(r, "render confirmation",
                           [NoView EXCEPT !.user = req[r].user, !.eventId = req[r].body.id])
    /\ UNCHANGED <<users, events, nextEventId, session>>

\* ------------------------------------------------------------------ GET /admin
AdminBegin(r, c) ==
    /\ Free(r)
    /\ LET q == ArriveWithSession("GET /admin", c, NoBody) IN
         Enter(r, q, AdminGate(q), "query")
    /\ UNCHANGED <<db, session>>

AdminQuery(r) ==
    /\ At(r, "GET /admin", "query")
    /\ \/ req' = Respond(r, "unhandled error")            \* the query rejects
       \/ \E rows \in OrderByDate(events) :
            req' = Render(r, "render admin",
                          [NoView EXCEPT !.user = req[r].user, !.events = rows])
    /\ UNCHANGED <<db, session>>

\* ------------------------------------------------------------------ POST /admin/add
AdminAddBegin(r, c) ==
    /\ Free(r)
    /\ nextEventId + EventInserts <= MaxEvents
    /\ \E title \in Titles, date \in Dates, location \in Locations :
         LET q == ArriveWithSession("POST /admin/add", c, EventBody(title, date, location)) IN
         Enter(r, q, AdminGate(q), "insert")
    /\ UNCHANGED <<db, session>>

AdminAddInsert(r) ==
    /\ At(r, "POST /admin/add", "insert")
    /\ \/ /\ req' = Respond(r, "unhandled error")         \* the query rejects
          /\ UNCHANGED <<events, nextEventId>>
       \/ /\ events' = events \cup {NewEvent(req[r], NULL)}
          /\ nextEventId' = nextEventId + 1
          /\ req' = Respond(r, "redirect /admin")
    /\ UNCHANGED <<users, bookings, nextBookingId, session>>

\* ------------------------------------------------------------------ POST /admin/delete/:id
AdminDeleteBegin(r, c) ==
    /\ Free(r)
    /\ \E id \in EventIds :
         LET q == ArriveWithSession("POST /admin/delete/:id", c, [NoBody EXCEPT !.id = id]) IN
         Enter(r, q, AdminGate(q), "delete")
    /\ UNCHANGED <<db, session>>

\* Variant of the delete: the bookings of the event are deleted with it.
AdminDeleteCascade(r) ==
    /\ At(r, "POST /admin/delete/:id", "delete")
    /\ \/ /\ req' = Respond(r, "unhandled error")
          /\ UNCHANGED <<events, bookings>>
       \/ /\ events' = {e \in events : e.id # req[r].body.id}
          /\ bookings' = {b \in bookings : b.event_id # req[r].body.id}
          /\ req' = Respond(r, "redirect /admin")
    /\ UNCHANGED <<users, nextEventId, nextBookingId, session>>

\* Variant of the delete: the WHERE clause is lost, every row goes.
AdminDeleteAll(r) ==
    /\ At(r, "POST /admin/delete/:id", "delete")
    /\ \/ /\ req' = Respond(r, "unhandled error")
          /\ UNCHANGED events
       \/ /\ events' = {}
          /\ req' = Respond(r, "redirect /admin")
    /\ UNCHANGED <<users, bookings, nextEventId, nextBookingId, session>>

\* DELETE FROM events WHERE id=$1
AdminDelete(r) ==
    /\ At(r, "POST /admin/delete/:id", "delete")
    /\ \/ /\ req' = Respond(r, "unhandled error")         \* the query rejects
          /\ UNCHANGED events
       \/ /\ events' = {e \in events : e.id # req[r].body.id}
          /\ req' = Respond(r, "redirect /admin")
    /\ UNCHANGED <<users, bookings, nextEventId, nextBookingId, session>>

\* ------------------------------------------------------------------ specifications
Signup(r, c, usernames, passwords, roles) ==
    \/ SignupBegin(r, c, usernames, passwords, roles)
    \/ SignupSelect(r)
    \/ SignupHash(r)
    \/ SignupInsert(r)

Login(r, c, usernames, passwords) ==
    \/ LoginBegin(r, c, usernames, passwords)
    \/ LoginSelect(r)
    \/ LoginCompare(r)

Logout(r, c) == LogoutBegin(r, c) \/ LogoutCallback(r)

\* Signups alone, with every kind of form body, on an empty database.
NextSignup ==
    \E r \in Slots, c \in Clients :
        \/ SignupForm(r, c)
        \/ Signup(r, c, Usernames, PasswordFields, RoleFields)

SpecSignup == Init /\ [][NextSignup]_vars

\* Accounts and sessions of two clients on an empty database: signups for one
\* username with either password, logins for that username and for one that no
\* row has, logout, and the pages that show who is logged in (GET /) or ask for
\* a login (GET /create-event).
NextAuth ==
    \E r \in Slots, c \in Clients :
        \/ Signup(r, c, {"alice"}, {<<p>> : p \in Passwords}, {Absent})
        \/ LoginForm(r, c)
        \/ Login(r, c, Usernames, PasswordFields)
        \/ Logout(r, c)
        \/ HomeBegin(r, c) \/ HomeQuery(r)
        \/ CreateForm(r, c)

SpecAuth == Init /\ [][NextAuth]_vars

\* The database outlives the server. For the routes on events and bookings it
\* holds the accounts of two earlier signups, alice (role "user") and bob (role
\* "admin"), both with the password "p"; one client has up to two requests in
\* flight.
SeedUsers ==
    << [id |-> 1, username |-> "alice", password |-> bcryptHash(<<"p">>, "s1"),
        role |-> "user"],
       [id |-> 2, username |-> "bob", password |-> bcryptHash(<<"p">>, "s1"),
        role |-> "admin"] >>

InitSeeded ==
    /\ users = SeedUsers
    /\ events = {}
    /\ bookings = {}
    /\ nextEventId = 1
    /\ nextBookingId = 1
    /\ session = [c \in Clients |-> NoUser]
    /\ req = [r \in Slots |-> Idle]

Account(r, c) == Login(r, c, Usernames, {<<"p">>}) \/ Logout(r, c)

\* Events: who creates, lists and deletes them.
Next ==
    \E r \in Slots, c \in {"c1"} :
        \/ Account(r, c)
        \/ HomeBegin(r, c) \/ HomeQuery(r)
        \/ CreateForm(r, c)
        \/ CreateBegin(r, c) \/ CreateInsert(r)
        \/ AdminBegin(r, c) \/ AdminQuery(r)
        \/ AdminAddBegin(r, c) \/ AdminAddInsert(r)
        \/ AdminDeleteBegin(r, c) \/ AdminDelete(r)

Spec == InitSeeded /\ [][Next]_vars

\* The admin routes beside the route that creates owned events.
NextAdmin ==
    \E r \in Slots, c \in {"c1"} :
        \/ Account(r, c)
        \/ CreateBegin(r, c) \/ CreateInsert(r)
        \/ AdminBegin(r, c) \/ AdminQuery(r)
        \/ AdminAddBegin(r, c) \/ AdminAddInsert(r)
        \/ AdminDeleteBegin(r, c) \/ AdminDelete(r)

SpecAdmin == InitSeeded /\ [][NextAdmin]_vars

\* Every route behind requireLogin.
NextGated ==
    \E r \in Slots, c \in {"c1"} :
        \/ Account(r, c)
        \/ CreateForm(r, c)
        \/ CreateBegin(r, c) \/ CreateInsert(r)
        \/ BookBegin(r, c) \/ BookInsert(r)
        \/ AdminBegin(r, c) \/ AdminQuery(r)
        \/ AdminAddBegin(r, c) \/ AdminAddInsert(r)
        \/ AdminDeleteBegin(r, c) \/ AdminDelete(r)

SpecGated == InitSeeded /\ [][NextGated]_vars

\* Every route. The database holds the account of one earlier signup, the
\* admin bob; a signup of this run adds the account of alice.
SeedAdmin ==
    << [id |-> 1, username |-> "bob", password |-> bcryptHash(<<"p">>, "s1"),
        role |-> "admin"] >>

InitAdmin ==
    /\ users = SeedAdmin
    /\ events = {}
    /\ bookings = {}
    /\ nextEventId = 1
    /\ nextBookingId = 1
    /\ session = [c \in Clients |-> NoUser]
    /\ req = [r \in Slots |-> Idle]

NextAll ==
    \E r \in Slots, c \in {"c1"} :
        \/ SignupForm(r, c)
        \/ Signup(r, c, {"alice"}, {<<"p">>}, {Absent})
        \/ LoginForm(r, c)
        \/ Account(r, c)
        \/ HomeBegin(r, c) \/ HomeQuery(r)
        \/ CreateForm(r, c)
        \/ CreateBegin(r, c) \/ CreateInsert(r)
        \/ BookBegin(r, c) \/ BookInsert(r)
        \/ AdminBegin(r, c) \/ AdminQuery(r)
        \/ AdminAddBegin(r, c) \/ AdminAddInsert(r)
        \/ AdminDeleteBegin(r, c) \/ AdminDelete(r)

SpecAll == InitAdmin /\ [][NextAll]_vars

\* ------------------------------------------------------------------ properties
GatedRoutes ==
    {"GET /create-event", "POST /create-event", "POST /book/:id",
     "GET /admin", "POST /admin/add", "POST /admin/delete/:id"}

AdminRoutes == {"GET /admin", "POST /admin/add", "POST /admin/delete/:id"}

Busy(r) == req[r].pc # "done"

\* Slot r takes in a request of one of the routes in this step.
Arrives(r, routes) == ~Busy(r) /\ req'[r] # req[r] /\ req'[r].route \in routes

\* The request in slot r takes a step that ends it.
Ends(r) == Busy(r) /\ req'[r].pc = "done"

\* C1: a request to a route behind requireLogin whose session holds no user is
\* answered with a redirect to /login and its handler body never runs; every
\* step that inserts or deletes an event row or a booking row is the step of a
\* request that passed requireLogin with a session user.
C1_Step ==
    /\ \A r \in Slots :
         Arrives(r, GatedRoutes) /\ session[req'[r].client] = NoUser
            => req'[r].pc = "done" /\ req'[r].res = "redirect /login"
    /\ (events' # events \/ bookings' # bookings)
            => \E r \in Slots : /\ req[r].route \in GatedRoutes
                                /\ req[r].user # NoUser
                                /\ Ends(r)

C1_LoginRequired == [][C1_Step]_vars

\* A booking request without a session was turned away, and both tables hold a
\* row written by a request with a session.
C1_Witness ==
    /\ \E r \in Slots : /\ req[r].route = "POST /book/:id"
                        /\ req[r].res = "redirect /login"
    /\ events # {}
    /\ bookings # {}

\* C2: GET /admin without a session user redirects to /login; with a session
\* user whose role is not "admin" it answers "Access denied" and renders
\* nothing; with an admin session it renders every row of the events table,
\* whoever owns it (unless the query itself is rejected).
C2_Step ==
    \A r \in Slots :
        /\ Arrives(r, {"GET /admin"}) =>
             LET user == session[req'[r].client] IN
             IF user = NoUser
             THEN req'[r].pc = "done" /\ req'[r].res = "redirect /login"
             ELSE IF user.role # "admin"
             THEN /\ req'[r].pc = "done"
                  /\ req'[r].res = "Access denied"
                  /\ req'[r].view = NoView
             ELSE req'[r].pc = "query" /\ req'[r].user = user
        /\ req[r].route = "GET /admin" /\ Ends(r) =>
             \/ req'[r].res = "unhandled error"
             \/ /\ req'[r].res = "render admin"
                /\ Range(req'[r].view.events) = events
                /\ Len(req'[r].view.events) = Cardinality(events)

C2_AdminPage == [][C2_Step]_vars

\* The admin page was rendered with an owner-less event and an owned one.
C2_Witness ==
    \E r \in Slots :
        /\ req[r].route = "GET /admin"
        /\ req[r].res = "render admin"
        /\ \E e1, e2 \in Range(req[r].view.events) :
              e1.user_id = NULL /\ e2.user_id # NULL

\* C3: POST /admin/add and POST /admin/delete/:id with a session user whose
\* role is not "admin" answer "Access denied" and leave the events table
\* unchanged; a step of an admin route that changes the events table belongs
\* to a request of an admin session, and every step that removes an event row
\* is the step of a POST /admin/delete/:id of an admin session.
C3_Step ==
    /\ \A r \in Slots :
         /\ Arrives(r, {"POST /admin/add", "POST /admin/delete/:id"})
              /\ session[req'[r].client] # NoUser
              /\ session[req'[r].client].role # "admin"
              => /\ req'[r].pc = "done"
                 /\ req'[r].res = "Access denied"
                 /\ events' = events
         /\ req[r].route \in AdminRoutes /\ Busy(r) /\ req'[r] # req[r]
              /\ events' # events
              => req[r].user.role = "admin"
    /\ (\E e \in events : e \notin events')
            => \E r \in Slots : /\ req[r].route = "POST /admin/delete/:id"
                                /\ req[r].user.role = "admin"
                                /\ Ends(r)

C3_AdminOnly == [][C3_Step]_vars

\* One delete was refused for the role, another (of an admin session) removed
\* the only event.
C3_Witness ==
    /\ \E r1, r2 \in Slots :
         /\ req[r1].route = "POST /admin/delete/:id"
         /\ req[r1].res = "Access denied"
         /\ req[r2].route = "POST /admin/delete/:id"
         /\ req[r2].res = "redirect /admin"
    /\ events = {}
    /\ nextEventId > 1

RowsIn(table, username) == {i \in 1..Len(table) : table[i].username = username}

RowsOf(username) == RowsIn(users, username)

\* The request in slot r takes a step.
Steps(r, route) == req[r].route = route /\ Busy(r) /\ req'[r] # req[r]

\* The step appends exactly one row to users and changes no other row.
AddsOneUser ==
    /\ Len(users') = Len(users) + 1
    /\ SubSeq(users', 1, Len(users)) = users

\* C4: every row of users has the role "user" or "admin", whatever the form
\* bodies of the POST /signup requests hold.
C4_RoleIsUserOrAdmin == \A u \in Range(users) : u.role \in {"user", "admin"}

\* C5: a POST /signup whose username no row has, with no query rejected, adds
\* exactly one row with that username, role "user" if the body names no role,
\* and a password that is a hash other than the plaintext and verified by
\* bcrypt.compare for it; the response is a redirect to /login. Step by step:
\* the existence check lets the request pass, the hash of the plaintext is
\* taken (bcrypt.hash rejects a body without a password: "Error occurred", no
\* row), and the insert, unless rejected, appends that one row and redirects.
C5_Step ==
    \A r \in Slots :
        Steps(r, "POST /signup") =>
            /\ req[r].pc = "select" /\ RowsOf(req[r].body.username) = {}
                 => req'[r].pc = "hash" \/ req'[r].res = "Error occurred"
            /\ req[r].pc = "hash" =>
                 IF req[r].body.password # Absent
                 THEN /\ req'[r].pc = "insert"
                      /\ req'[r].hashed # req[r].body.password[1]
                      /\ bcryptCompare(req[r].body.password[1], req'[r].hashed)
                 ELSE req'[r].res = "Error occurred" /\ users' = users
            /\ req[r].pc = "insert" =>
                 \/ req'[r].res = "Error occurred" /\ users' = users
                 \/ /\ req'[r].res = "redirect /login"
                    /\ AddsOneUser
                    /\ LET row == users'[Len(users')]
                           plaintext == req[r].body.password[1]
                       IN /\ row.username = req[r].body.username
                          /\ Cardinality(RowsIn(users', row.username))
                                = Cardinality(RowsIn(users, row.username)) + 1
                          /\ req[r].body.role = Absent => row.role = "user"
                          /\ row.password # plaintext
                          /\ bcryptCompare(plaintext, row.password)

C5_Signup == [][C5_Step]_vars

\* A signup that named no role was redirected to /login and its row, the only
\* one, has the role "user".
C5_Witness ==
    /\ \E r \in Slots : req[r].route = "POST /signup" /\ req[r].res = "redirect /login"
    /\ Len(users) = 1
    /\ users[1].role = "user"
    /\ bcryptCompare(<<"p">>, users[1].password)

\* C6: a POST /signup whose existence check runs when a row with its username
\* is there (a first signup has responded) is answered "Username already
\* taken" (unless the check itself is rejected), ends there and inserts
\* nothing: the table holds as many rows with that username as before.
C6_Step ==
    \A r \in Slots :
        Steps(r, "POST /signup") /\ req[r].pc = "select"
            /\ RowsOf(req[r].body.username) # {}
        => /\ req'[r].pc = "done"
           /\ req'[r].res \in {"Username already taken", "Error occurred"}
           /\ users' = users

C6_UsernameTaken == [][C6_Step]_vars

\* The second signup was told that the username is taken; one row is there.
C6_Witness ==
    /\ \E r \in Slots : req[r].route = "POST /signup"
                        /\ req[r].res = "Username already taken"
    /\ Len(users) = 1

\* C7: nothing below the existence check keeps usernames unique. A signup that
\* has passed its check can always insert its row and be redirected to /login,
\* also when a row with its username has appeared since the check.
C7_InsertAccepted ==
    \A r \in Slots :
        At(r, "POST /signup", "insert") =>
            ENABLED (/\ SignupInsert(r)
                     /\ AddsOneUser
                     /\ req'[r].res = "redirect /login")

\* Two signups, both redirected to /login, left two rows with one username.
C7_Witness ==
    /\ \A r \in Slots : req[r].route = "POST /signup" /\ req[r].res = "redirect /login"
    /\ Len(users) = 2
    /\ users[1].username = users[2].username

\* C8: once a signup has succeeded, a POST /login with its username and
\* password stores that user's whole row in the client's session and redirects
\* to /; a GET / of that client is then rendered with that user. Stated for
\* every row the login's lookup returned that has the username and whose hash
\* verifies the password: such a row is the row of a successful signup with
\* these credentials.
C8_Step ==
    \A r \in Slots :
        /\ Steps(r, "POST /login") /\ req[r].pc = "compare"
              /\ req[r].body.password # Absent
           => \A x \in Range(req[r].rows) :
                 bcryptCompare(req[r].body.password[1], x.password)
                    => /\ req'[r].res = "redirect /"
                       /\ session'[req[r].client] = x
        /\ Arrives(r, {"GET /"}) => req'[r].user = session[req'[r].client]
        /\ Steps(r, "GET /") /\ req'[r].res = "render index"
           => req'[r].view.user = req[r].user

C8_LoginRoundTrip == [][C8_Step]_vars

\* A POST /login fails: the lookup, not rejected, found no row with the
\* username, or bcrypt.compare found that the password does not verify against
\* the hash of the first row found.
LoginFails(r) ==
    /\ Steps(r, "POST /login")
    /\ \/ /\ req[r].pc = "select"
          /\ RowsOf(req[r].body.username) = {}
          /\ req'[r].res # "unhandled error"
       \/ /\ req[r].pc = "compare"
          /\ req[r].body.password # Absent
          /\ ~bcryptCompare(req[r].body.password[1], req[r].rows[1].password)

\* C9 as stated: after a POST /login whose username is unknown or whose
\* password does not verify, the response is "Invalid credentials" and the
\* client's session holds no user.
C9_OriginalStep ==
    \A r \in Slots :
        LoginFails(r) => /\ req'[r].res = "Invalid credentials"
                         /\ session'[req[r].client] = NoUser

C9_Original == [][C9_OriginalStep]_vars

\* C9 as amended: after a POST /login whose username is unknown or whose
\* password does not verify, the response is "Invalid credentials" and every
\* session is as it was before: the client's session holds no user unless the
\* client was logged in already.
C9_AmendedStep ==
    \A r \in Slots :
        LoginFails(r) => /\ req'[r].pc = "done"
                         /\ req'[r].res = "Invalid credentials"
                         /\ session' = session

C9_FailedLogin == [][C9_AmendedStep]_vars

\* A client that was logged in has been answered "Invalid credentials" and is
\* logged in still.
C9_Witness ==
    \E r \in Slots :
        /\ req[r].route = "POST /login"
        /\ req[r].res = "Invalid credentials"
        /\ session[req[r].client] # NoUser

\* The only step that puts a user into a session that held none: the last
\* step of a POST /login of that client, answered with a redirect to /.
OnlyLoginSetsUser ==
    \A c \in Clients :
        session[c] = NoUser /\ session'[c] # NoUser
            => \E r \in Slots : /\ Steps(r, "POST /login")
                                /\ req[r].client = c
                                /\ req[r].pc = "compare"
                                /\ req'[r].res = "redirect /"

GatedTurnedAway ==
    \A r \in Slots :
        Arrives(r, GatedRoutes) /\ session[req'[r].client] = NoUser
            => req'[r].pc = "done" /\ req'[r].res = "redirect /login"

\* C10 as stated: GET /logout destroys the client's session and redirects to /
\* only after that; once the redirect is sent the session holds no user, so
\* that requests to gated routes are redirected to /login, until a later
\* POST /login of that client succeeds.
C10_OriginalStep ==
    /\ \A r \in Slots :
         Steps(r, "GET /logout") => /\ req[r].pc = "destroyed"
                                    /\ req'[r].res = "redirect /"
                                    /\ session'[req[r].client] = NoUser
    /\ OnlyLoginSetsUser
    /\ GatedTurnedAway

C10_Original == [][C10_OriginalStep]_vars

\* C10 as amended: GET /logout destroys the client's session as the request
\* arrives and redirects to / in a later step; from the destroy on the session
\* holds no user, so that requests to gated routes are redirected to /login,
\* until a POST /login of that client succeeds, which may be one that was in
\* flight during the logout and ends before the redirect is sent.
C10_AmendedStep ==
    /\ \A r \in Slots :
         /\ Arrives(r, {"GET /logout"}) => /\ session'[req'[r].client] = NoUser
                                          /\ req'[r].pc = "destroyed"
                                          /\ req'[r].res = "none"
         /\ Steps(r, "GET /logout") => /\ req[r].pc = "destroyed"
                                       /\ req'[r].res = "redirect /"
                                       /\ session' = session
    /\ OnlyLoginSetsUser
    /\ GatedTurnedAway

C10_Logout == [][C10_AmendedStep]_vars

\* A client with an account has logged out and was then turned away from
\* GET /create-event.
C10_Witness ==
    \E r1, r2 \in Slots :
        /\ req[r1].route = "GET /logout"
        /\ req[r1].res = "redirect /"
        /\ req[r2].route = "GET /create-event"
        /\ req[r2].res = "redirect /login"
        /\ req[r2].client = req[r1].client
        /\ session[req[r1].client] = NoUser
        /\ users # << >>

\* C11: GET / of a client without a session user renders the empty list at
\* once; with a session user it renders (unless the query is rejected) a list
\* without repetition, ordered by date ascending, that holds every event row
\* for an admin and exactly the rows owned by that user otherwise, so never an
\* owner-less event or another user's event.
C11_Step ==
    \A r \in Slots :
        /\ Arrives(r, {"GET /"}) =>
             IF session[req'[r].client] = NoUser
             THEN /\ req'[r].pc = "done"
                  /\ req'[r].res = "render index"
                  /\ req'[r].view.events = << >>
             ELSE /\ req'[r].pc = "query"
                  /\ req'[r].user = session[req'[r].client]
        /\ Steps(r, "GET /") =>
             \/ req'[r].res = "unhandled error"
             \/ LET user == req[r].user
                    shown == req'[r].view.events
                IN /\ req'[r].res = "render index"
                   /\ Len(shown) = Cardinality(Range(shown))
                   /\ IsSortedByDate(shown)
                   /\ IF user.role = "admin"
                      THEN Range(shown) = events
                      ELSE /\ Range(shown) = {e \in events : e.user_id = user.id}
                           /\ \A e \in Range(shown) : e.user_id # NULL

C11_HomeListing == [][C11_Step]_vars

\* A user who is not an admin was shown a list of one event, the own one, while
\* the table holds an owner-less event of an earlier date as well.
C11_ShownOwn ==
    \E r \in Slots :
        /\ req[r].route = "GET /"
        /\ req[r].res = "render index"
        /\ req[r].view.user.role = "user"
        /\ Len(req[r].view.events) = 1
        /\ \E e \in events : /\ e.user_id = NULL
                             /\ e.date < req[r].view.events[1].date

\* An admin was shown two events of different dates, the earlier one first.
C11_ShownOrdered ==
    \E r \in Slots :
        /\ req[r].route = "GET /"
        /\ req[r].res = "render index"
        /\ req[r].view.user.role = "admin"
        /\ Len(req[r].view.events) = 2
        /\ req[r].view.events[1].date < req[r].view.events[2].date
        /\ req[r].view.events[1].id > req[r].view.events[2].id

\* Both pages were rendered: the user's with the own event alone, the admin's
\* with all events in the order of their dates.
C11_Witness == C11_ShownOwn /\ C11_ShownOrdered

\* C12: a POST /admin/delete/:id of an admin session runs its DELETE; unless
\* the query is rejected the answer is a redirect to /admin and the events
\* table loses the rows with that id and no other: nothing when no row has the
\* id, exactly one row when one has it. Afterwards no row has the id, so the
\* same delete again removes nothing.
C12_Step ==
    \A r \in Slots :
        /\ Arrives(r, {"POST /admin/delete/:id"})
              /\ session[req'[r].client].role = "admin"
           => req'[r].pc = "delete" /\ events' = events
        /\ Steps(r, "POST /admin/delete/:id") =>
             LET id == req[r].body.id
                 hit == {e \in events : e.id = id}
             IN \/ req'[r].res = "unhandled error" /\ events' = events
                \/ /\ req'[r].res = "redirect /admin"
                   /\ events' = events \ hit
                   /\ hit = {} => events' = events
                   /\ hit # {} => Cardinality(events') = Cardinality(events) - 1
                   /\ {e \in events' : e.id # id} = events'

C12_Delete == [][C12_Step]_vars

\* Two events were inserted and two deletes were answered with the redirect:
\* one removed its row and left the other row, one found no row with its id.
C12_Witness ==
    /\ \A r \in Slots : /\ req[r].route = "POST /admin/delete/:id"
                        /\ req[r].res = "redirect /admin"
    /\ nextEventId = 3
    /\ Cardinality(events) = 1

\* C13: every booking row references a user id that is in the users table and
\* an event id that is in the events table, whatever POST /book/:id and
\* POST /admin/delete/:id requests were made.
C13_BookingReferences ==
    \A b \in bookings :
        /\ \E u \in Range(users) : u.id = b.user_id
        /\ \E e \in events : e.id = b.event_id

\* C14: each of the two queries of POST /signup can be rejected, and the catch
\* block then answers "Error occurred" with the users table as it was. The
\* answers of the route are that message, "Username already taken" and the
\* redirect to /login, never an unhandled error; only the step answered with
\* the redirect changes the users table.
C14_Step ==
    \A r \in Slots :
        /\ At(r, "POST /signup", "select") \/ At(r, "POST /signup", "insert")
           => ENABLED (/\ SignupSelect(r) \/ SignupInsert(r)
                       /\ req'[r].pc = "done"
                       /\ req'[r].res = "Error occurred"
                       /\ users' = users)
        /\ Steps(r, "POST /signup") =>
             /\ Ends(r) => req'[r].res \in {"Error occurred",
                                            "Username already taken",
                                            "redirect /login"}
             /\ req'[r].res # "redirect /login" => users' = users

C14_SignupRejection == [][C14_Step]_vars

\* Of two signups with a password one was answered "Error occurred", the other
\* was redirected to /login: the table holds the row of the second alone.
C14_Witness ==
    /\ \E r1, r2 \in Slots :
         /\ req[r1].route = "POST /signup" /\ req[r1].res = "Error occurred"
         /\ req[r2].route = "POST /signup" /\ req[r2].res = "redirect /login"
    /\ Len(users) = 1

\* The step adds exactly one row to events, with the title, date and location
\* of the body of q and the given owner, under an id no row had.
AddsOneEvent(q, owner) ==
    \E e \in events' :
        /\ events' = events \cup {e}
        /\ \A x \in events : x.id # e.id
        /\ e.title = q.body.title
        /\ e.date = q.body.date
        /\ e.location = q.body.location
        /\ e.user_id = owner

\* C15: a POST /create-event holds the session user it arrived with and its
\* insert, unless rejected, adds exactly one event owned by that user; the
\* insert of a POST /admin/add, a request of an admin, adds exactly one event
\* without an owner; and no step changes a row of events: a row with the id of
\* an existing row is that row.
C15_Step ==
    /\ \A r \in Slots :
         /\ Arrives(r, {"POST /create-event"}) /\ req'[r].pc = "insert"
            => req'[r].user = session[req'[r].client] /\ events' = events
         /\ Steps(r, "POST /create-event") =>
              \/ req'[r].res = "unhandled error" /\ events' = events
              \/ /\ req'[r].res = "redirect /"
                 /\ req[r].user.id # NULL
                 /\ AddsOneEvent(req[r], req[r].user.id)
         /\ Steps(r, "POST /admin/add") =>
              \/ req'[r].res = "unhandled error" /\ events' = events
              \/ /\ req'[r].res = "redirect /admin"
                 /\ req[r].user.role = "admin"
                 /\ AddsOneEvent(req[r], NULL)
    /\ \A e \in events, x \in events' : x.id = e.id => x = e

C15_EventOwner == [][C15_Step]_vars

\* A create-event of a user and an add of the admin were both answered with
\* their redirects: the table holds an event owned by the user and one without
\* an owner.
C15_Witness ==
    /\ \E r1, r2 \in Slots :
         /\ req[r1].route = "POST /create-event" /\ req[r1].res = "redirect /"
         /\ req[r2].route = "POST /admin/add" /\ req[r2].res = "redirect /admin"
    /\ \E e1, e2 \in events : e1.user_id = 1 /\ e2.user_id = NULL

\* C16: no step removes a row of users or changes one, and a step that adds a
\* row is the insert of a POST /signup, which appends one row; a signup gets
\* to its insert only past an existence check that found no row with its
\* username. No step removes a row of bookings or changes one.
C16_Step ==
    /\ Len(users') >= Len(users)
    /\ SubSeq(users', 1, Len(users)) = users
    /\ users' # users
         => \E r \in Slots : /\ Steps(r, "POST /signup")
                             /\ req[r].pc = "insert"
                             /\ req'[r].res = "redirect /login"
                             /\ AddsOneUser
    /\ \A r \in Slots :
         Steps(r, "POST /signup") /\ req[r].pc = "select" /\ req'[r].pc # "done"
            => RowsOf(req[r].body.username) = {} /\ req'[r].pc = "hash"
    /\ \A r \in Slots :
         Steps(r, "POST /signup") /\ req'[r].pc = "insert" => req[r].pc = "hash"
    /\ bookings \subseteq bookings'
    /\ \A b \in bookings, x \in bookings' : x.id = b.id => x = b

C16_OnlyGrow == [][C16_Step]_vars

\* A signup added the second user; a booking was made and is still there after
\* a delete removed the only event.
C16_Witness ==
    /\ \E r1, r2 \in Slots :
         /\ req[r1].route = "POST /signup" /\ req[r1].res = "redirect /login"
         /\ req[r2].route = "POST /admin/delete/:id" /\ req[r2].res = "redirect /admin"
    /\ Len(users) = 2
    /\ bookings # {}
    /\ events = {}
    /\ nextEventId > 1

\* The routes that write no table, and the table each other route may write.
ReadOnlyRoutes ==
    {"GET /", "GET /admin", "GET /signup", "GET /login", "GET /create-event",
     "POST /login", "GET /logout"}

EventWriters == {"POST /create-event", "POST /admin/add", "POST /admin/delete/:id"}

\* The request in slot r arrives or takes a step.
Acts(r) == req'[r] # req[r]

\* C17: a step of GET /, GET /admin, GET /signup, GET /login,
\* GET /create-event, POST /login or GET /logout leaves users, events and
\* bookings as they are; a step of POST /signup leaves every session, events
\* and bookings as they are; a step of POST /create-event, POST /admin/add or
\* POST /admin/delete/:id leaves every session, users and bookings as they
\* are; a step of POST /book/:id leaves every session, users and events as
\* they are. Every step is the step of one request.
C17_Step ==
    /\ Cardinality({r \in Slots : Acts(r)}) = 1
    /\ \A r \in Slots :
         Acts(r) =>
            LET route == req'[r].route IN
            /\ route \in ReadOnlyRoutes \cup EventWriters
                            \cup {"POST /signup", "POST /book/:id"}
            /\ route \in ReadOnlyRoutes
                 => users' = users /\ events' = events /\ bookings' = bookings
            /\ route \notin {"POST /login", "GET /logout"} => session' = session
            /\ route = "POST /signup" => events' = events /\ bookings' = bookings
            /\ route \in EventWriters => users' = users /\ bookings' = bookings
            /\ route = "POST /book/:id" => users' = users /\ events' = events

C17_RouteFrame == [][C17_Step]_vars

\* Every table was written and a page was read: a signup and a booking were
\* answered, an event is there, and the client is logged in.
C17_Witness ==
    /\ \E r1, r2 \in Slots :
         /\ req[r1].route = "POST /signup" /\ req[r1].res = "redirect /login"
         /\ req[r2].route = "POST /book/:id" /\ req[r2].res = "render confirmation"
    /\ Len(users) = 2
    /\ events # {}
    /\ bookings # {}
    /\ session["c1"] # NoUser

\* C18: no session holds a user at the start, and a step changes what a
\* client's session holds in two cases only: the last step of a POST /login of
\* that client, answered with the redirect to /, puts there a row of users
\* that has the username of the form and a hash that verifies the password of
\* the form; the arrival of a GET /logout of that client leaves no user there.
C18_Step ==
    \A c \in Clients :
        session'[c] # session[c] =>
            \E r \in Slots :
                /\ Acts(r)
                /\ req'[r].client = c
                /\ \/ /\ Steps(r, "POST /login")
                      /\ req[r].client = c
                      /\ req[r].pc = "compare"
                      /\ req'[r].res = "redirect /"
                      /\ req[r].body.password # Absent
                      /\ LET row == session'[c] IN
                           /\ row \in Range(users)
                           /\ row.username = req[r].body.username
                           /\ bcryptCompare(req[r].body.password[1], row.password)
                   \/ /\ Arrives(r, {"GET /logout"})
                      /\ session'[c] = NoUser

C18_SessionUser == (\A c \in Clients : session[c] = NoUser) /\ [][C18_Step]_vars

\* One client is logged in after a login answered with the redirect, the other
\* was answered "Invalid credentials" and is not.
C18_Witness ==
    \E r1, r2 \in Slots :
        /\ req[r1].route = "POST /login" /\ req[r1].res = "redirect /"
        /\ req[r2].route = "POST /login" /\ req[r2].res = "Invalid credentials"
        /\ req[r1].client # req[r2].client
        /\ session[req[r1].client] \in Range(users)
        /\ session[req[r2].client] = NoUser

\* C19: the user held by a session, and the user a request in flight took
\* from its session, is a row of the users table as it is now, with its id,
\* username, hash and role: the role an admin check looks at is the role in
\* the table.
C19_SessionIsRow ==
    /\ \A c \in Clients : session[c] # NoUser => session[c] \in Range(users)
    /\ \A r \in Slots :
         req[r].user # NoUser =>
            \E u \in Range(users) : /\ u = req[r].user
                                    /\ isAdmin(req[r]) <=> u.role = "admin"

\* An admin's GET /admin has passed the admin check and waits for its query;
\* the client has since logged in as a user who signed up in this run.
C19_Witness ==
    /\ \E r \in Slots : /\ At(r, "GET /admin", "query")
                        /\ req[r].user.role = "admin"
    /\ session["c1"] # NoUser
    /\ session["c1"].role = "user"
    /\ Len(users) = 2

\* C20: a step of a POST /login or of a GET /logout of one client, whatever
\* its outcome and whatever requests of the other client are in flight, leaves
\* the session of every other client as it is.
C20_Step ==
    \A r \in Slots :
        Acts(r) /\ req'[r].route \in {"POST /login", "GET /logout"}
            => \A d \in Clients \ {req'[r].client} : session'[d] = session[d]

C20_Independent == [][C20_Step]_vars

\* The second client has logged out and has then failed a login while the
\* first client is logged in.
C20_Witness ==
    \E r1, r2 \in Slots :
        /\ req[r1].route = "GET /logout" /\ req[r1].res = "redirect /"
        /\ req[r2].route = "POST /login" /\ req[r2].res = "Invalid credentials"
        /\ req[r1].client = "c2"
        /\ req[r2].client = "c2"
        /\ session["c1"] # NoUser
        /\ session["c2"] = NoUser
====
